---- MODULE Spec2Model ----
(***************************************************************************)
(* Model of the whale-scale Temporal workflows (src/app/workflows.py), the *)
(* activities they call (src/app/activities.py) and the way the Temporal   *)
(* runtime drives one workflow instance: run-logic steps between awaits,   *)
(* signals applied in history order, queries answered from a snapshot,     *)
(* activities retried under the retry policy.  The HTTP front end of the   *)
(* workflows (src/temporal_api_server.py) is modelled with its status      *)
(* store, its background tasks and the workflow executions they start.     *)
(*                                                                         *)
(* One workflow instance is live in a behaviour; wtype says of which       *)
(* workflow class it is.  Instances share no state, so the behaviours of   *)
(* the worker are the interleavings of behaviours of single instances.     *)
(***************************************************************************)
EXTENDS Integers, Sequences, FiniteSets, TLC

VARIABLES
    wtype,      \* WorkflowType of the live instance
    pc,         \* position of run: "init", "awaiting", "done", "failed", "raised"
    ret,        \* what run returned (or the error it ended with)
    hello,      \* fields of the HelloWorkflow object
    hc,         \* fields of the HealthCheckWorkflow object (containers is a reference)
    lists,      \* the list objects: "own" made by __init__, "arg" passed to run
    tasks,      \* the activities of the fan-out, in input order, with their outcomes
    t2i,        \* fields of the Text2ImageWorkflow object
    inv,        \* the activity invocation of Text2ImageWorkflow.run (attempts, clocks)
    poller,     \* the running attempt of generate_image_from_text
    signals,    \* signals accepted for the instance, in arrival order
    applied,    \* how many of them the handlers have been run for
    query,      \* the answer the last query returned
    queryAt,    \* how many signals had been accepted when that query was issued
    runCalls,   \* invocations of the run method
    actCalls,   \* activities scheduled by run
    store,      \* workflow_status of the API server: workflow id -> record
    bg,         \* the run_workflow task of each workflow id and where it stands
    engine,     \* the executions the Temporal server holds for each workflow id
    reply,      \* what the last client call was answered with
    gen,        \* the image generation service: its tasks and their background work
    hist        \* the event history of the instance, where it is being recorded

\* the state of one workflow instance, and the state around the API server
wfvars == <<wtype, pc, ret, hello, hc, lists, tasks, t2i, inv, poller,
            signals, applied, query, queryAt, runCalls, actCalls, hist>>
servers == <<store, bg, engine, reply, gen>>
vars == <<wfvars, servers>>

----------------------------------------------------------------------------
(* Bounds of the model *)

MaxSignals == 2
MaxAdds == 1
MaxContainers == 2

(* Inputs *)

Names == {"World", "Ada"}
Suffixes == {"?", " from Test!"}
Containers == {"a", "b"}
HealthStatuses == {"healthy", "unhealthy", "stopped", "error"}
\* the message of the error a failed activity of this container ends with
ErrMsg(container) == <<"Activity task failed", container>>

None == "None"
EmptyMap == [c \in {} |-> None]
NoValue == [kind |-> "none"]

\* no request has been answered yet
NoReply == [op |-> "none", id |-> None, code |-> 0, body |-> NoValue]

WorkflowType == {"hello", "health_check", "text2image"}

\* the workflow ids of the model: what uuid4 makes, or what --id is given
WorkflowIds == {"w1", "w2"}

InputLists == UNION {[1..n -> Containers] : n \in 0..MaxContainers}

Contains(list, x) == \E i \in 1..Len(list) : list[i] = x

----------------------------------------------------------------------------
(* HelloWorkflow *)

HelloWorkflow_init == [name |-> None, suffix |-> "!"]

say_hello(name) == <<"Hello, ", name, "!">>

\* mutant: the handler keeps a suffix that was already set
set_suffix_once(self, suffix) ==
    IF self.suffix = "!" THEN [self EXCEPT !.suffix = suffix] ELSE self

set_suffix(self, suffix) == [self EXCEPT !.suffix = suffix]

\* mutant: reading the state puts the suffix back to its default
get_state_reset(self) ==
    [ret |-> [name |-> self.name, suffix |-> self.suffix],
     self |-> [self EXCEPT !.suffix = "!"]]

get_state(self) ==
    [ret |-> [name |-> self.name, suffix |-> self.suffix], self |-> self]

----------------------------------------------------------------------------
(* HealthCheckWorkflow *)

HealthCheckWorkflow_init == [containers |-> "own", health_results |-> EmptyMap]

Pending == [kind |-> "pending"]
Returned(container, status) ==
    [kind |-> "value", status |-> status, container |-> container]
Raised(msg) == [kind |-> "exc", error |-> msg]

\* what check_container_health can end with for one container
ActivityOutcomes(container) ==
    {Returned(container, s) : s \in HealthStatuses} \cup {Raised(ErrMsg(container))}

\* the entry run stores for one gathered result (lines 65-71)
ResultEntry(r) ==
    IF r.kind = "exc"
    THEN [status |-> "error", error |-> r.error]
    ELSE [status |-> r.status, container |-> r.container]

\* mutant: every entry is built from the first gathered result
Aggregate_misindexed(containers, results, i, acc) ==
    IF Len(containers) > Len(results) THEN [kind |-> "IndexError"]
    ELSE [kind |-> "ok",
          map |-> [c \in {containers[k] : k \in 1..Len(containers)} |->
                      ResultEntry(results[1])]]

\* for i, container in enumerate(containers): health_results[container] = ...
RECURSIVE Aggregate(_, _, _, _)
Aggregate(containers, results, i, acc) ==
    IF i > Len(containers) THEN [kind |-> "ok", map |-> acc]
    ELSE IF i > Len(results) THEN [kind |-> "IndexError"]
    ELSE Aggregate(containers, results, i + 1,
                   [c \in (DOMAIN acc) \cup {containers[i]} |->
                       IF c = containers[i] THEN ResultEntry(results[i]) ELSE acc[c]])

\* mutant: the handler appends to the list __init__ made, whatever run installed
add_container_own(ls, self, container) ==
    IF Contains(ls.own, container)
    THEN ls
    ELSE [ls EXCEPT !.own = Append(@, container)]

add_container(ls, self, container) ==
    IF Contains(ls[self.containers], container)
    THEN ls
    ELSE [ls EXCEPT ![self.containers] = Append(@, container)]

CountStatus(results, s) == Cardinality({c \in DOMAIN results : results[c].status = s})

\* mutant: a stopped container is counted as unhealthy
_get_health_summary_stopped(self) ==
    [total |-> Cardinality(DOMAIN self.health_results),
     healthy |-> CountStatus(self.health_results, "healthy"),
     unhealthy |-> CountStatus(self.health_results, "unhealthy")
                      + CountStatus(self.health_results, "stopped"),
     errors |-> CountStatus(self.health_results, "error")]

_get_health_summary(self) ==
    IF DOMAIN self.health_results = {}
    THEN [total |-> 0, healthy |-> 0, unhealthy |-> 0, errors |-> 0]
    ELSE [total |-> Cardinality(DOMAIN self.health_results),
          healthy |-> CountStatus(self.health_results, "healthy"),
          unhealthy |-> CountStatus(self.health_results, "unhealthy"),
          errors |-> CountStatus(self.health_results, "error")]

\* the dict the handler builds holds the list object itself
get_health_status(self) ==
    [ret |-> [containers |-> [ref |-> self.containers],
              health_results |-> self.health_results,
              summary |-> _get_health_summary(self)],
     self |-> self]

----------------------------------------------------------------------------
(* Text2ImageWorkflow and the generate_image_from_text activity *)

InitialInterval == 1
MaximumInterval == 10
MaximumAttempts == 3
BackoffCoefficient == 2
StartToCloseTimeout == 600
PollInterval == 1
NonRetryableErrorTypes == {"ValueError", "KeyError"}

\* how long after its interval the server may still take to start a retry
MaxSchedDelay == 1

Prompts == {"a whale"}
ImageUrls == {"/image/t1", None}

Min(a, b) == IF a < b THEN a ELSE b
Max(a, b) == IF a > b THEN a ELSE b

\* mutant: a new instance counts as already generating
Text2ImageWorkflow_init_generating ==
    [prompt |-> "", image_url |-> None, status |-> "generating", progress |-> 0]

Text2ImageWorkflow_init ==
    [prompt |-> "", image_url |-> None, status |-> "pending", progress |-> 0]

\* the query the tests call; src/app/workflows.py does not define it
get_status(self) ==
    [ret |-> [prompt |-> self.prompt, status |-> self.status,
              progress |-> self.progress, image_url |-> self.image_url],
     self |-> self]

\* mutant: the progress is stored as it is given
update_progress_unclamped(self, progress) == [self EXCEPT !.progress = progress]

\* the signal the tests call; src/app/workflows.py does not define it
update_progress(self, progress) ==
    [self EXCEPT !.progress = Max(0, Min(100, progress))]

\* the signal the tests call; src/app/workflows.py does not define it
cancel_generation(self) == [self EXCEPT !.status = "cancelled"]

\* what the remote service can answer to POST /generate
SubmitOutcomes == {"ok", "http_error", "client_error", "bad_json", "no_task_id"}
\* the status values a task of the service can be polled in, and one it never has
RemoteStatuses == {"pending", "processing", "running", "completed", "failed",
                   "cancelled", "bogus"}
\* what a GET can end with instead of a decoded body
GetFailures == {"http_error", "client_error", "bad_json"}

\* the exception a failed remote call raises inside the try block
InnerKind(outcome) ==
    CASE outcome = "client_error" -> "ClientError"
      [] outcome = "bad_json" -> "ValueError"
      [] OTHER -> "Exception"

\* the body of a non-200 answer to POST /generate, and the error text of a failed task
ErrorText == "bad request"
RemoteError == "out of memory"

\* the message of the exception a failed remote call raises, as its parts
InnerMessage(outcome, call) ==
    CASE outcome = "client_error" -> <<"cannot connect">>
      [] outcome = "bad_json" -> <<"expecting value">>
      [] outcome = "no_task_id" -> <<"No task ID returned from generation service">>
      [] call = "generate" -> <<"Generation failed", ErrorText>>
      [] call = "status" -> <<"Failed to get generation status">>
      [] OTHER -> <<"Failed to get generation result">>

\* lines 191-202: the message of the exception raised for a polled status
StatusMessage(status) ==
    IF status = "failed" THEN <<"Generation failed", RemoteError>>
    ELSE <<"Unknown status", status>>

\* the two except clauses re-raise every error as a plain Exception (lines 204-209)
SurfacedType(inner) == "Exception"

\* lines 204-209: the message of the re-raised exception
SurfacedMessage(inner, msg) ==
    IF inner = "ClientError"
    THEN <<"Network error connecting to generation service">> \o msg
    ELSE <<"Image generation failed">> \o msg

RECURSIVE Pow(_, _)
Pow(b, e) == IF e <= 0 THEN 1 ELSE b * Pow(b, e - 1)

\* mutant: the interval does not grow with the attempts
RetryInterval_flat(failed) == Min(InitialInterval, MaximumInterval)

\* the wait the retry policy puts after the failure of attempt number failed
RetryInterval(failed) ==
    Min(InitialInterval * Pow(BackoffCoefficient, failed - 1), MaximumInterval)

\* mutant: the last allowed attempt is never made
ShouldRetry_offByOne(type, attempt) ==
    /\ type \notin NonRetryableErrorTypes
    /\ attempt + 1 < MaximumAttempts

\* whether the retry policy allows another attempt after attempt failed with type
ShouldRetry(type, attempt) ==
    /\ type \notin NonRetryableErrorTypes
    /\ attempt < MaximumAttempts

\* the mapping f with key k set to v
Put(f, k, v) == [x \in DOMAIN f \cup {k} |-> IF x = k THEN v ELSE f[x]]

\* the task ids of the model: what uuid4 makes
TaskIds == {"t1", "t2", "t3"}

\* lines 68-77: GenerationTask.__init__
GenerationTask(t) ==
    [task_id |-> t, status |-> "pending", progress |-> 0,
     result |-> NoValue, error |-> None]

\* the id the service gives its next task: one no task has
NewTaskId(g) ==
    IF DOMAIN g.tasks = TaskIds THEN None
    ELSE CHOOSE t \in TaskIds \ DOMAIN g.tasks : TRUE

\* image_generation_service.py lines 494-499: the service with a new task under
\* the id, its background work scheduled
WithNewTask(g, t) ==
    [tasks |-> Put(g.tasks, t, GenerationTask(t)), sched |-> g.sched \cup {t}]

NoInvocation ==
    [input |-> None, attempt |-> 0, state |-> "none", elapsed |-> 0, lastBeat |-> 0,
     waited |-> 0, failure |-> "none", submitted |-> 0]
\* task is the id the submit returned, polled the id of the last status request;
\* submits and fetches count the POST /generate and GET /result of the attempt
IdlePoller ==
    [pc |-> "idle", exc |-> "none", msg |-> <<>>, status |-> "none", result |-> NoValue,
     task |-> None, polled |-> None, submits |-> 0, fetches |-> 0]

\* the invocation after the running attempt failed with an error of this type
AfterFailure(i, type) ==
    [i EXCEPT !.state = IF ShouldRetry(type, i.attempt) THEN "backoff" ELSE "failed",
              !.elapsed = 0,
              !.lastBeat = 0,
              !.waited = 0,
              !.failure = type]

----------------------------------------------------------------------------
(* The runtime: signals, queries and the steps of run *)

SetSuffix(s) == [name |-> "set_suffix", arg |-> s]
AddContainer(c) == [name |-> "add_container", arg |-> c]
\* the progress values the tests send: inside, above and below the range
Progresses == {-10, 50, 150}
UpdateProgress(p) == [name |-> "update_progress", arg |-> p]
\* cancel_generation takes no argument: the payload is 0
CancelGeneration == [name |-> "cancel_generation", arg |-> 0]

\* the signals each workflow class defines a handler for
SignalsOf(t) ==
    CASE t = "hello" -> {SetSuffix(s) : s \in Suffixes}
      [] t = "health_check" -> {AddContainer(c) : c \in Containers}
      [] OTHER -> {UpdateProgress(p) : p \in Progresses} \cup {CancelGeneration}

\* the events of a workflow execution's history that reach the workflow code:
\* the start with its input, a signal, the result of an activity
WorkflowStarted(input) == [ev |-> "started", arg |-> input]
WorkflowSignalled(sig) == [ev |-> "signalled", arg |-> sig]
ActivityCompleted(i, outcome) == [ev |-> "completed", arg |-> [index |-> i, outcome |-> outcome]]

NoHistory == [on |-> FALSE, events |-> <<>>]
EmptyHistory == [on |-> TRUE, events |-> <<>>]

\* the history with one more event
Record(e) == IF hist.on THEN [hist EXCEPT !.events = Append(@, e)] ELSE hist

Open == pc \in {"init", "awaiting"}
NoPendingSignal == applied = Len(signals)

\* how many signals the model lets an instance of each class receive
SignalBound(t) == IF t = "health_check" THEN MaxAdds ELSE MaxSignals

\* the server accepts a signal for an open workflow and appends it to the history
SendSignal(sig) ==
    /\ Open
    /\ Len(signals) < SignalBound(wtype)
    /\ sig \in SignalsOf(wtype)
    /\ signals' = Append(signals, sig)
    /\ UNCHANGED servers
    /\ UNCHANGED hist
    /\ UNCHANGED <<wtype, pc, ret, hello, hc, lists, tasks, t2i, inv, poller,
                   applied, query, queryAt, runCalls, actCalls>>

\* which accepted signal the worker hands to its handler next
NextSignal == applied + 1

\* the worker runs the handler of the next signal of the history
ApplySignal ==
    /\ Open
    /\ ~NoPendingSignal
    /\ LET sig == signals[NextSignal] IN
         /\ hello' = IF sig.name = "set_suffix" THEN set_suffix(hello, sig.arg) ELSE hello
         /\ lists' = IF sig.name = "add_container"
                     THEN add_container(lists, hc, sig.arg) ELSE lists
         /\ t2i' = CASE sig.name = "update_progress" -> update_progress(t2i, sig.arg)
                     [] sig.name = "cancel_generation" -> cancel_generation(t2i)
                     [] OTHER -> t2i
    /\ applied' = NextSignal
    /\ UNCHANGED servers
    /\ hist' = Record(WorkflowSignalled(signals[NextSignal]))
    /\ UNCHANGED <<wtype, pc, ret, hc, tasks, inv, poller,
                   signals, query, queryAt, runCalls, actCalls>>

\* the answer of a query handler as the client receives it: the data converter
\* encodes the returned value when the handler returns
to_payload(ls, v) ==
    IF "containers" \in DOMAIN v
    THEN [v EXCEPT !.containers = [val |-> ls[v.containers.ref]]]
    ELSE v

\* the query handler of the live instance
HandleQuery ==
    CASE wtype = "hello" -> get_state(hello)
      [] wtype = "health_check" -> get_health_status(hc)
      [] OTHER -> get_status(t2i)

\* a query is answered once the worker has processed the history up to it
Query ==
    /\ pc # "raised"
    /\ NoPendingSignal
    /\ LET r == HandleQuery IN
         /\ query' = to_payload(lists, r.ret)
         /\ hello' = IF wtype = "hello" THEN r.self ELSE hello
         /\ hc' = IF wtype = "health_check" THEN r.self ELSE hc
         /\ t2i' = IF wtype = "text2image" THEN r.self ELSE t2i
    /\ queryAt' = Len(signals)
    /\ UNCHANGED servers
    /\ UNCHANGED hist
    /\ UNCHANGED <<wtype, pc, ret, lists, tasks, inv, poller,
                   signals, applied, runCalls, actCalls>>

(* HelloWorkflow.run *)

HelloRunStart(name) ==
    /\ wtype = "hello" /\ pc = "init" /\ NoPendingSignal
    /\ hello' = [hello EXCEPT !.name = name]
    /\ pc' = "awaiting"
    /\ runCalls' = runCalls + 1
    /\ actCalls' = actCalls + 1
    /\ UNCHANGED servers
    /\ hist' = Record(WorkflowStarted(name))
    /\ UNCHANGED <<wtype, ret, hc, lists, tasks, t2i, inv, poller,
                   signals, applied, query, queryAt>>

\* mutant: run ends the greeting with the suffix the signals have set
HelloRunFinish_withSuffix ==
    /\ wtype = "hello" /\ pc = "awaiting" /\ NoPendingSignal
    /\ pc' = "done"
    /\ ret' = [kind |-> "value", value |-> <<"Hello, ", hello.name, hello.suffix>>]
    /\ UNCHANGED servers
    /\ hist' = Record(ActivityCompleted(1, [kind |-> "value", value |-> say_hello(hello.name)]))
    /\ UNCHANGED <<wtype, hello, hc, lists, tasks, t2i, inv, poller,
                   signals, applied, query, queryAt, runCalls, actCalls>>

HelloRunFinish ==
    /\ wtype = "hello" /\ pc = "awaiting" /\ NoPendingSignal
    /\ pc' = "done"
    /\ ret' = [kind |-> "value", value |-> say_hello(hello.name)]
    /\ UNCHANGED servers
    /\ hist' = Record(ActivityCompleted(1, [kind |-> "value", value |-> say_hello(hello.name)]))
    /\ UNCHANGED <<wtype, hello, hc, lists, tasks, t2i, inv, poller,
                   signals, applied, query, queryAt, runCalls, actCalls>>

(* HealthCheckWorkflow.run *)

Outcomes(ts) == [i \in 1..Len(ts) |-> ts[i].outcome]
AllTerminal(ts) == \A i \in 1..Len(ts) : ts[i].outcome.kind # "pending"

\* lines 64-74 on the gathered results: the new pc, return value and health results
FanIn(containers, results, old) ==
    LET a == Aggregate(containers, results, 1, EmptyMap) IN
    IF a.kind = "ok"
    THEN [pc |-> "done", ret |-> [kind |-> "value", value |-> a.map],
          health_results |-> a.map]
    ELSE [pc |-> "raised", ret |-> [kind |-> "error", type |-> a.kind],
          health_results |-> old]

\* mutant: the activities are started in an order run picks afresh each time
HCRunStart_anyOrder(containers) ==
    /\ wtype = "health_check" /\ pc = "init" /\ NoPendingSignal
    /\ lists' = [lists EXCEPT !.arg = containers]
    /\ \E p \in [1..Len(containers) -> 1..Len(containers)] :
          /\ \A i, j \in 1..Len(containers) : p[i] = p[j] => i = j
          /\ tasks' = [i \in 1..Len(containers) |->
                          [container |-> containers[p[i]], outcome |-> Pending,
                           failed |-> 0]]
    /\ runCalls' = runCalls + 1
    /\ actCalls' = actCalls + Len(containers)
    /\ IF containers = <<>>
       THEN LET f == FanIn(containers, <<>>, hc.health_results) IN
              /\ pc' = f.pc
              /\ ret' = f.ret
              /\ hc' = [containers |-> "arg", health_results |-> f.health_results]
       ELSE /\ pc' = "awaiting"
            /\ ret' = ret
            /\ hc' = [hc EXCEPT !.containers = "arg"]
    /\ UNCHANGED servers
    /\ hist' = Record(WorkflowStarted(containers))
    /\ UNCHANGED <<wtype, hello, t2i, inv, poller, signals, applied, query, queryAt>>

\* lines 49-62: the argument list becomes the instance's list, one activity is
\* started per container, and run awaits them all (no await for an empty list)
HCRunStart(containers) ==
    /\ wtype = "health_check" /\ pc = "init" /\ NoPendingSignal
    /\ lists' = [lists EXCEPT !.arg = containers]
    /\ tasks' = [i \in 1..Len(containers) |->
                    [container |-> containers[i], outcome |-> Pending, failed |-> 0]]
    /\ runCalls' = runCalls + 1
    /\ actCalls' = actCalls + Len(containers)
    /\ IF containers = <<>>
       THEN LET f == FanIn(containers, <<>>, hc.health_results) IN
              /\ pc' = f.pc
              /\ ret' = f.ret
              /\ hc' = [containers |-> "arg", health_results |-> f.health_results]
       ELSE /\ pc' = "awaiting"
            /\ ret' = ret
            /\ hc' = [hc EXCEPT !.containers = "arg"]
    /\ UNCHANGED servers
    /\ hist' = Record(WorkflowStarted(containers))
    /\ UNCHANGED <<wtype, hello, t2i, inv, poller, signals, applied, query, queryAt>>

\* how many failed attempts of one activity the model lets the server retry
MaxRetries == 1

\* mutant: the error of the failed attempt is what the activity ends with
HCActivityRetry_surfaces(i) ==
    /\ wtype = "health_check" /\ pc = "awaiting"
    /\ i \in 1..Len(tasks)
    /\ tasks[i].outcome = Pending
    /\ tasks[i].failed < MaxRetries
    /\ tasks' = [tasks EXCEPT ![i].failed = @ + 1,
                              ![i].outcome = Raised(ErrMsg(tasks[i].container))]
    /\ UNCHANGED servers
    /\ UNCHANGED hist
    /\ UNCHANGED <<wtype, pc, ret, hello, hc, lists, t2i, inv, poller,
                   signals, applied, query, queryAt, runCalls, actCalls>>

\* lines 55-59: execute_activity is given no retry policy, so the server's
\* default one applies: an attempt that fails is followed by another attempt, and
\* the workflow sees none of it
HCActivityRetry(i) ==
    /\ wtype = "health_check" /\ pc = "awaiting"
    /\ i \in 1..Len(tasks)
    /\ tasks[i].outcome = Pending
    /\ tasks[i].failed < MaxRetries
    /\ tasks' = [tasks EXCEPT ![i].failed = @ + 1]
    /\ UNCHANGED servers
    /\ UNCHANGED hist
    /\ UNCHANGED <<wtype, pc, ret, hello, hc, lists, t2i, inv, poller,
                   signals, applied, query, queryAt, runCalls, actCalls>>

\* mutant: each activity that ends puts its entry into the instance's map
HCActivityDone_partial(i, outcome) ==
    /\ wtype = "health_check" /\ pc = "awaiting"
    /\ i \in 1..Len(tasks)
    /\ tasks[i].outcome = Pending
    /\ outcome \in ActivityOutcomes(tasks[i].container)
    /\ tasks' = [tasks EXCEPT ![i].outcome = outcome]
    /\ hc' = [hc EXCEPT !.health_results =
                  Put(@, tasks[i].container, ResultEntry(outcome))]
    /\ UNCHANGED servers
    /\ hist' = Record(ActivityCompleted(i, outcome))
    /\ UNCHANGED <<wtype, pc, ret, hello, lists, t2i, inv, poller,
                   signals, applied, query, queryAt, runCalls, actCalls>>

\* one activity of the fan-out ends, in any order
HCActivityDone(i, outcome) ==
    /\ wtype = "health_check" /\ pc = "awaiting"
    /\ i \in 1..Len(tasks)
    /\ tasks[i].outcome = Pending
    /\ outcome \in ActivityOutcomes(tasks[i].container)
    /\ tasks' = [tasks EXCEPT ![i].outcome = outcome]
    /\ UNCHANGED servers
    /\ hist' = Record(ActivityCompleted(i, outcome))
    /\ UNCHANGED <<wtype, pc, ret, hello, hc, lists, t2i, inv, poller,
                   signals, applied, query, queryAt, runCalls, actCalls>>

\* gather returns once every activity has ended; run goes on with lines 64-74
HCRunFinish ==
    /\ wtype = "health_check" /\ pc = "awaiting" /\ NoPendingSignal
    /\ AllTerminal(tasks)
    /\ LET f == FanIn(lists.arg, Outcomes(tasks), hc.health_results) IN
         /\ pc' = f.pc
         /\ ret' = f.ret
         /\ hc' = [hc EXCEPT !.health_results = f.health_results]
    /\ UNCHANGED servers
    /\ UNCHANGED hist
    /\ UNCHANGED <<wtype, hello, lists, tasks, t2i, inv, poller,
                   signals, applied, query, queryAt, runCalls, actCalls>>

(* Text2ImageWorkflow.run and the attempts of generate_image_from_text *)

Running == wtype = "text2image" /\ inv.state = "running"
\* mutant: the timeout is given in seconds instead of minutes
InTime_seconds == inv.elapsed < StartToCloseTimeout \div 60

\* the running attempt has not yet run for start_to_close_timeout
InTime == inv.elapsed < StartToCloseTimeout

\* a fresh attempt of the activity, at its POST /generate
FreshPoller == [IdlePoller EXCEPT !.pc = "submit"]

\* lines 131-146: unpack the arguments, build the policy, start the activity
T2IRunStart(prompt) ==
    /\ wtype = "text2image" /\ pc = "init" /\ NoPendingSignal
    /\ pc' = "awaiting"
    /\ ret' = ret
    /\ inv' = [NoInvocation EXCEPT !.input = prompt, !.attempt = 1, !.state = "running"]
    /\ poller' = FreshPoller
    /\ runCalls' = runCalls + 1
    /\ actCalls' = actCalls + 1
    /\ UNCHANGED servers
    /\ hist' = Record(WorkflowStarted(prompt))
    /\ UNCHANGED <<wtype, hello, hc, lists, tasks, t2i,
                   signals, applied, query, queryAt>>

\* the running attempt raises inside the try block: the error is re-raised as a
\* plain Exception and the retry policy decides on another attempt
AttemptRaisesAfter(p, inner, msg) ==
    /\ poller' = [p EXCEPT !.pc = "idle", !.exc = inner, !.msg = msg]
    /\ inv' = AfterFailure(inv, SurfacedType(inner))
AttemptRaises(inner, msg) == AttemptRaisesAfter(poller, inner, msg)

\* mutant: a retry takes up the task the attempt before it submitted
PollerSubmit_reuses(outcome) ==
    /\ Running /\ InTime /\ poller.pc = "submit"
    /\ outcome \in SubmitOutcomes
    /\ outcome = "ok" => NewTaskId(gen) # None
    /\ LET sent == [poller EXCEPT !.submits = @ + 1] IN
         IF outcome = "ok"
         THEN /\ poller' = [sent EXCEPT !.pc = "sleep", !.task =
                                 IF DOMAIN gen.tasks = {} THEN NewTaskId(gen)
                                 ELSE CHOOSE t \in DOMAIN gen.tasks : TRUE]
              /\ inv' = [inv EXCEPT !.submitted = @ + 1]
              /\ gen' = IF DOMAIN gen.tasks = {} THEN WithNewTask(gen, NewTaskId(gen))
                        ELSE gen
         ELSE /\ AttemptRaisesAfter(sent, InnerKind(outcome),
                                    InnerMessage(outcome, "generate"))
              /\ gen' = gen
    /\ UNCHANGED <<store, bg, engine, reply>>
    /\ UNCHANGED hist
    /\ UNCHANGED <<wtype, pc, ret, hello, hc, lists, tasks, t2i,
                   signals, applied, query, queryAt, runCalls, actCalls>>

\* lines 128-146: POST /generate; the service makes a task for a request it
\* answers with a task id (image_generation_service.py lines 491-507)
PollerSubmit(outcome) ==
    /\ Running /\ InTime /\ poller.pc = "submit"
    /\ outcome \in SubmitOutcomes
    /\ outcome = "ok" => NewTaskId(gen) # None
    /\ LET sent == [poller EXCEPT !.submits = @ + 1] IN
         IF outcome = "ok"
         THEN /\ poller' = [sent EXCEPT !.pc = "sleep", !.task = NewTaskId(gen)]
              /\ inv' = [inv EXCEPT !.submitted = @ + 1]
              /\ gen' = WithNewTask(gen, NewTaskId(gen))
         ELSE /\ AttemptRaisesAfter(sent, InnerKind(outcome),
                                    InnerMessage(outcome, "generate"))
              /\ gen' = gen
    /\ UNCHANGED <<store, bg, engine, reply>>
    /\ UNCHANGED hist
    /\ UNCHANGED <<wtype, pc, ret, hello, hc, lists, tasks, t2i,
                   signals, applied, query, queryAt, runCalls, actCalls>>

\* mutant: the loop sleeps without sending the heartbeat
PollerSleep_noBeat ==
    /\ Running /\ InTime /\ poller.pc = "sleep"
    /\ poller' = [poller EXCEPT !.pc = "get"]
    /\ inv' = [inv EXCEPT !.elapsed = @ + PollInterval]
    /\ UNCHANGED servers
    /\ UNCHANGED hist
    /\ UNCHANGED <<wtype, pc, ret, hello, hc, lists, tasks, t2i,
                   signals, applied, query, queryAt, runCalls, actCalls>>

\* lines 150-151: heartbeat (recorded with the time it is sent at), then sleep
\* for the poll interval
PollerSleep ==
    /\ Running /\ InTime /\ poller.pc = "sleep"
    /\ poller' = [poller EXCEPT !.pc = "get"]
    /\ inv' = [inv EXCEPT !.lastBeat = inv.elapsed, !.elapsed = @ + PollInterval]
    /\ UNCHANGED servers
    /\ UNCHANGED hist
    /\ UNCHANGED <<wtype, pc, ret, hello, hc, lists, tasks, t2i,
                   signals, applied, query, queryAt, runCalls, actCalls>>

\* mutant: the result is fetched as soon as the task is being processed
StatusStep_fetchesEarly(status) ==
    CASE status \in {"completed", "processing"} -> "fetch"
      [] status = "failed" -> "raise"
      [] status = "running" -> "continue"
      [] OTHER -> "raise"

\* lines 163-202: what the poller does with a decoded status
StatusStep(status) ==
    CASE status = "completed" -> "fetch"
      [] status = "failed" -> "raise"
      [] status \in {"processing", "running"} -> "continue"
      [] OTHER -> "raise"

\* lines 154-202: GET /status, and GET /result for a completed task
PollerGet(resp, fetched, url) ==
    /\ Running /\ InTime /\ poller.pc = "get"
    /\ resp \in GetFailures \cup RemoteStatuses
    /\ fetched \in GetFailures \cup {"ok"}
    /\ url \in ImageUrls
    /\ LET asked == [poller EXCEPT !.polled = poller.task]
           fetching == [asked EXCEPT !.fetches = @ + 1] IN
       IF resp \in GetFailures
       THEN AttemptRaisesAfter(asked, InnerKind(resp), InnerMessage(resp, "status"))
       ELSE CASE StatusStep(resp) = "continue" ->
                   /\ poller' = [asked EXCEPT !.pc = "sleep", !.status = resp]
                   /\ inv' = inv
              [] StatusStep(resp) = "raise" ->
                   /\ poller' = [asked EXCEPT !.pc = "idle", !.status = resp,
                                              !.exc = "Exception",
                                              !.msg = StatusMessage(resp)]
                   /\ inv' = AfterFailure(inv, SurfacedType("Exception"))
              [] OTHER ->
                   IF fetched = "ok"
                   THEN /\ poller' = [fetching EXCEPT !.pc = "idle", !.status = resp,
                                          !.result = [kind |-> "value",
                                                      image_url |-> url,
                                                      prompt |-> inv.input]]
                        /\ inv' = [inv EXCEPT !.state = "completed", !.elapsed = 0,
                                          !.lastBeat = 0]
                   ELSE /\ poller' = [fetching EXCEPT !.pc = "idle", !.status = resp,
                                                      !.exc = InnerKind(fetched),
                                                      !.msg = InnerMessage(fetched,
                                                                           "result")]
                        /\ inv' = AfterFailure(inv, SurfacedType(InnerKind(fetched)))
    /\ UNCHANGED servers
    /\ UNCHANGED hist
    /\ UNCHANGED <<wtype, pc, ret, hello, hc, lists, tasks, t2i,
                   signals, applied, query, queryAt, runCalls, actCalls>>

\* mutant: a timed-out attempt is recorded as an ordinary application failure
ActivityTimeout_asException ==
    /\ Running /\ ~InTime
    /\ poller' = [poller EXCEPT !.pc = "idle"]
    /\ inv' = AfterFailure(inv, "Exception")
    /\ UNCHANGED servers
    /\ UNCHANGED hist
    /\ UNCHANGED <<wtype, pc, ret, hello, hc, lists, tasks, t2i,
                   signals, applied, query, queryAt, runCalls, actCalls>>

\* the attempt has run for start_to_close_timeout: the server fails it as timed out
ActivityTimeout ==
    /\ Running /\ ~InTime
    /\ poller' = [poller EXCEPT !.pc = "idle"]
    /\ inv' = AfterFailure(inv, "Timeout")
    /\ UNCHANGED servers
    /\ UNCHANGED hist
    /\ UNCHANGED <<wtype, pc, ret, hello, hc, lists, tasks, t2i,
                   signals, applied, query, queryAt, runCalls, actCalls>>

\* time passes while the failed invocation waits for its next attempt
BackoffTick ==
    /\ wtype = "text2image" /\ inv.state = "backoff"
    /\ inv.waited < RetryInterval(inv.attempt) + MaxSchedDelay
    /\ inv' = [inv EXCEPT !.waited = @ + 1]
    /\ UNCHANGED servers
    /\ UNCHANGED hist
    /\ UNCHANGED <<wtype, pc, ret, hello, hc, lists, tasks, t2i, poller,
                   signals, applied, query, queryAt, runCalls, actCalls>>

\* the server starts the next attempt once the retry interval has passed
StartRetry ==
    /\ wtype = "text2image" /\ inv.state = "backoff"
    /\ inv.waited >= RetryInterval(inv.attempt)
    /\ inv' = [inv EXCEPT !.attempt = @ + 1, !.state = "running", !.elapsed = 0,
                           !.lastBeat = 0]
    /\ poller' = FreshPoller
    /\ UNCHANGED servers
    /\ UNCHANGED hist
    /\ UNCHANGED <<wtype, pc, ret, hello, hc, lists, tasks, t2i,
                   signals, applied, query, queryAt, runCalls, actCalls>>

\* what the activity ended with, as the awaiting run receives it
ActivityResult ==
    IF inv.state = "completed" THEN poller.result
    ELSE [kind |-> "error", type |-> inv.failure]

\* mutant: run looks at the status flag and fails a cancelled generation
T2IRunFinish_honoursCancel ==
    /\ wtype = "text2image" /\ pc = "awaiting" /\ NoPendingSignal
    /\ inv.state \in {"completed", "failed"}
    /\ IF inv.state = "completed" /\ t2i.status # "cancelled"
       THEN /\ pc' = "done"
            /\ ret' = poller.result
       ELSE /\ pc' = "failed"
            /\ ret' = [kind |-> "error", type |-> inv.failure]
    /\ UNCHANGED servers
    /\ hist' = Record(ActivityCompleted(1, ActivityResult))
    /\ UNCHANGED <<wtype, hello, hc, lists, tasks, t2i, inv, poller,
                   signals, applied, query, queryAt, runCalls, actCalls>>

\* lines 141-148: the await ends with the activity's result, or with its error
T2IRunFinish ==
    /\ wtype = "text2image" /\ pc = "awaiting" /\ NoPendingSignal
    /\ inv.state \in {"completed", "failed"}
    /\ IF inv.state = "completed"
       THEN /\ pc' = "done"
            /\ ret' = poller.result
       ELSE /\ pc' = "failed"
            /\ ret' = [kind |-> "error", type |-> inv.failure]
    /\ UNCHANGED servers
    /\ hist' = Record(ActivityCompleted(1, ActivityResult))
    /\ UNCHANGED <<wtype, hello, hc, lists, tasks, t2i, inv, poller,
                   signals, applied, query, queryAt, runCalls, actCalls>>

----------------------------------------------------------------------------
(* The specification *)

Start ==
    /\ wtype \in WorkflowType
    /\ pc = "init"
    /\ ret = NoValue
    /\ hello = HelloWorkflow_init
    /\ hc = HealthCheckWorkflow_init
    /\ lists = [own |-> <<>>, arg |-> <<>>]
    /\ tasks = <<>>
    /\ t2i = Text2ImageWorkflow_init
    /\ inv = NoInvocation
    /\ poller = IdlePoller
    /\ signals = <<>>
    /\ applied = 0
    /\ query = NoValue
    /\ queryAt = 0
    /\ runCalls = 0
    /\ actCalls = 0
    /\ store = EmptyMap
    /\ bg = EmptyMap
    /\ engine = [id \in WorkflowIds |-> <<>>]
    /\ reply = NoReply
    /\ gen = [tasks |-> EmptyMap, sched |-> {}]

\* the state after construction; the history is not being recorded
Init == Start /\ hist = NoHistory

\* the steps of the worker, the activity and the server on a Text2ImageWorkflow
T2IProgress ==
    \/ \E prompt \in Prompts : T2IRunStart(prompt)
    \/ \E o \in SubmitOutcomes : PollerSubmit(o)
    \/ PollerSleep
    \/ \E r \in GetFailures \cup RemoteStatuses :
          \E f \in (IF r = "completed" THEN GetFailures \cup {"ok"} ELSE {"ok"}) :
             \E u \in (IF r = "completed" /\ f = "ok" THEN ImageUrls ELSE {None}) :
                PollerGet(r, f, u)
    \/ ActivityTimeout
    \/ BackoffTick
    \/ StartRetry
    \/ T2IRunFinish

\* every workflow class with its signals, queries and run; the advisory signals
\* of Text2ImageWorkflow are left to SignalSpec and HandlerSpec
Next ==
    \/ \E t \in WorkflowType \ {"text2image"} : \E sig \in SignalsOf(t) : SendSignal(sig)
    \/ ApplySignal
    \/ Query
    \/ \E name \in Names : HelloRunStart(name)
    \/ HelloRunFinish
    \/ \E containers \in InputLists : HCRunStart(containers)
    \/ \E i \in 1..MaxContainers : \E c \in Containers :
          \E o \in ActivityOutcomes(c) : HCActivityDone(i, o)
    \/ HCRunFinish
    \/ T2IProgress

Spec == Init /\ [][Next]_vars

\* a HealthCheckWorkflow instance whose activities can fail and be retried, and
\* the queries on it
HCInit == Init /\ wtype = "health_check"
RetryNext ==
    \/ \E containers \in InputLists : HCRunStart(containers)
    \/ \E i \in 1..MaxContainers : HCActivityRetry(i)
    \/ \E i \in 1..MaxContainers : \E c \in Containers :
          \E o \in ActivityOutcomes(c) : HCActivityDone(i, o)
    \/ HCRunFinish
    \/ Query
RetrySpec == HCInit /\ [][RetryNext]_vars

\* a Text2ImageWorkflow instance alone, its steps and the queries on it
T2IInit == Init /\ wtype = "text2image"
T2INext == T2IProgress \/ Query

\* the worker, the activity and the server keep running: a step of theirs that
\* stays possible is taken
LiveSpec == T2IInit /\ [][T2INext]_vars /\ WF_vars(T2IProgress)

----------------------------------------------------------------------------
(* The API server (src/temporal_api_server.py) and the executions it starts *)

\* how many executions the model lets the starter start under one workflow id
MaxStarts == 1

\* the ids the starter is given with --id: one the API server can make as well
StarterIds == {"w1"}

\* str(e) of the errors run_workflow can catch
ConnectError == "Failed client connect"
AlreadyStarted == "Workflow execution already started"
WorkflowFailed == "Workflow execution failed"
\* what a Text2ImageWorkflow run can return
WorkflowResults ==
    {[kind |-> "value", image_url |-> u, prompt |-> p] : u \in ImageUrls, p \in Prompts}

TerminalStatuses == {"completed", "failed"}

\* lines 67-74: the record generate_image stores for a new workflow id
NewRecord(id, prompt) ==
    [workflow_id |-> id, status |-> "starting", stamps |-> {"created_at"},
     request |-> prompt, result |-> NoValue, error |-> None]

\* the last execution of a workflow id is still open
IsOpen(id) == engine[id] # <<>> /\ engine[id][Len(engine[id])].state = "open"

\* the Temporal server starts an execution under the id, or refuses because the
\* id has an open execution (the default id policies)
CanStart(id) == ~IsOpen(id)
Started(id, by) ==
    [engine EXCEPT ![id] = Append(@, [state |-> "open", result |-> NoValue, by |-> by])]
\* the executions the starter has started under the id
StarterRuns(id) == {i \in DOMAIN engine[id] : engine[id][i].by = "starter"}

\* mutant: the id made is one that has a record already
generate_image_colliding(id, prompt) ==
    /\ id \in WorkflowIds
    /\ id \in DOMAIN bg => bg[id].pc = "ended"
    /\ store' = Put(store, id, NewRecord(id, prompt))
    /\ bg' = Put(bg, id, [pc |-> "scheduled", run |-> 0])
    /\ reply' = [op |-> "generate", id |-> id, code |-> 200,
                 body |-> [workflow_id |-> id, status |-> "starting"]]
    /\ UNCHANGED engine
    /\ UNCHANGED <<wfvars, gen>>

\* lines 59-87: POST /generate makes an id, stores the record, schedules
\* run_workflow and answers; the id uuid4 makes is taken to be a new one
generate_image(id, prompt) ==
    /\ id \in WorkflowIds \ DOMAIN store
    /\ store' = Put(store, id, NewRecord(id, prompt))
    /\ bg' = Put(bg, id, [pc |-> "scheduled", run |-> 0])
    /\ reply' = [op |-> "generate", id |-> id, code |-> 200,
                 body |-> [workflow_id |-> id, status |-> "starting"]]
    /\ UNCHANGED engine
    /\ UNCHANGED <<wfvars, gen>>

\* mutant: a failure is recorded without leaving the running status
Fail_keepsStatus(id, msg) ==
    /\ store' = [store EXCEPT ![id].stamps = @ \cup {"failed_at"},
                              ![id].error = msg]
    /\ bg' = [bg EXCEPT ![id].pc = "ended"]

\* lines 116-120: the except clause of run_workflow
Fail(id, msg) ==
    /\ store' = [store EXCEPT ![id].status = "failed",
                              ![id].stamps = @ \cup {"failed_at"},
                              ![id].error = msg]
    /\ bg' = [bg EXCEPT ![id].pc = "ended"]

\* lines 92-97: the task starts running: status running, then it awaits the connect
RunBegin(id) ==
    /\ id \in DOMAIN bg /\ bg[id].pc = "scheduled"
    /\ store' = [store EXCEPT ![id].status = "running",
                              ![id].stamps = @ \cup {"started_at"}]
    /\ bg' = [bg EXCEPT ![id].pc = "connect"]
    /\ UNCHANGED <<engine, reply>>
    /\ UNCHANGED <<wfvars, gen>>

\* line 97: Client.connect returns or raises
Connect(id, ok) ==
    /\ id \in DOMAIN bg /\ bg[id].pc = "connect"
    /\ IF ok
       THEN /\ bg' = [bg EXCEPT ![id].pc = "start"]
            /\ store' = store
       ELSE Fail(id, ConnectError)
    /\ UNCHANGED <<engine, reply>>
    /\ UNCHANGED <<wfvars, gen>>

\* lines 100-106: start_workflow under the stored id returns a handle or raises
StartWorkflow(id) ==
    /\ id \in DOMAIN bg /\ bg[id].pc = "start"
    /\ IF CanStart(id)
       THEN /\ engine' = Started(id, "api")
            /\ bg' = [bg EXCEPT ![id] = [pc |-> "result", run |-> Len(engine[id]) + 1]]
            /\ store' = store
       ELSE /\ Fail(id, AlreadyStarted)
            /\ engine' = engine
    /\ UNCHANGED reply
    /\ UNCHANGED <<wfvars, gen>>

\* mutant: the result is not awaited: the record is completed while the execution
\* is still open
AwaitResult_early(id) ==
    /\ id \in DOMAIN bg /\ bg[id].pc = "result"
    /\ store' = [store EXCEPT ![id].status = "completed",
                              ![id].stamps = @ \cup {"completed_at"},
                              ![id].result = [kind |-> "value", image_url |-> None,
                                              prompt |-> store[id].request]]
    /\ bg' = [bg EXCEPT ![id].pc = "ended"]
    /\ UNCHANGED <<engine, reply>>
    /\ UNCHANGED <<wfvars, gen>>

\* mutant: the error of a failed execution is swallowed
AwaitResult_dropsError(id) ==
    /\ id \in DOMAIN bg /\ bg[id].pc = "result"
    /\ LET run == engine[id][bg[id].run] IN
         /\ run.state # "open"
         /\ IF run.state = "completed"
            THEN store' = [store EXCEPT ![id].status = "completed",
                                        ![id].stamps = @ \cup {"completed_at"},
                                        ![id].result = run.result]
            ELSE store' = store
         /\ bg' = [bg EXCEPT ![id].pc = "ended"]
    /\ UNCHANGED <<engine, reply>>
    /\ UNCHANGED <<wfvars, gen>>

\* lines 109-120: handle.result() returns the result of the execution the handle
\* was made for, or raises when that execution failed
AwaitResult(id) ==
    /\ id \in DOMAIN bg /\ bg[id].pc = "result"
    /\ LET run == engine[id][bg[id].run] IN
         /\ run.state # "open"
         /\ IF run.state = "completed"
            THEN /\ store' = [store EXCEPT ![id].status = "completed",
                                           ![id].stamps = @ \cup {"completed_at"},
                                           ![id].result = run.result]
                 /\ bg' = [bg EXCEPT ![id].pc = "ended"]
            ELSE Fail(id, WorkflowFailed)
    /\ UNCHANGED <<engine, reply>>
    /\ UNCHANGED <<wfvars, gen>>

\* the worker ends the open execution of the id, with a result or with an error
EngineClose(id, outcome) ==
    /\ IsOpen(id)
    /\ outcome \in WorkflowResults \cup {NoValue}
    /\ engine' = [engine EXCEPT ![id][Len(engine[id])] =
                     IF outcome = NoValue
                     THEN [@ EXCEPT !.state = "failed"]
                     ELSE [@ EXCEPT !.state = "completed", !.result = outcome]]
    /\ UNCHANGED <<store, bg, reply>>
    /\ UNCHANGED <<wfvars, gen>>

\* mutant: the id policy lets a second execution start while one is open
StarterStart_duplicate(id) ==
    /\ id \in StarterIds
    /\ Cardinality(StarterRuns(id)) < MaxStarts
    /\ engine' = Started(id, "starter")
    /\ reply' = [op |-> "start", id |-> id, code |-> 200, body |-> NoValue]
    /\ UNCHANGED <<store, bg>>
    /\ UNCHANGED <<wfvars, gen>>

\* starter.py lines 64-72: the command-line starter starts an execution under an
\* id of its own choice
StarterStart(id) ==
    /\ id \in StarterIds
    /\ IF CanStart(id)
       THEN /\ Cardinality(StarterRuns(id)) < MaxStarts
            /\ engine' = Started(id, "starter")
            /\ reply' = [op |-> "start", id |-> id, code |-> 200, body |-> NoValue]
       ELSE /\ engine' = engine
            /\ reply' = [op |-> "start", id |-> id, code |-> 409,
                         body |-> [error |-> AlreadyStarted]]
    /\ UNCHANGED <<store, bg>>
    /\ UNCHANGED <<wfvars, gen>>

\* mutant: the status is refused while the run_workflow task of the id is at work
get_workflow_status_busy(id) ==
    /\ id \in WorkflowIds
    /\ reply' = IF id \in DOMAIN store /\ bg[id].pc = "ended"
                THEN [op |-> "status", id |-> id, code |-> 200, body |-> store[id]]
                ELSE [op |-> "status", id |-> id, code |-> 404,
                      body |-> [detail |-> "Workflow not found"]]
    /\ UNCHANGED <<store, bg, engine>>
    /\ UNCHANGED <<wfvars, gen>>

\* lines 122-128: GET /status/{workflow_id}
get_workflow_status(id) ==
    /\ id \in WorkflowIds
    /\ reply' = IF id \in DOMAIN store
                THEN [op |-> "status", id |-> id, code |-> 200, body |-> store[id]]
                ELSE [op |-> "status", id |-> id, code |-> 404,
                      body |-> [detail |-> "Workflow not found"]]
    /\ UNCHANGED <<store, bg, engine>>
    /\ UNCHANGED <<wfvars, gen>>

\* the steps of the run_workflow task of one id, of all of them
BgStep(id) ==
    \/ RunBegin(id)
    \/ \E ok \in BOOLEAN : Connect(id, ok)
    \/ StartWorkflow(id)
    \/ AwaitResult(id)
BgProgress == \E id \in WorkflowIds : BgStep(id)

ApiNext ==
    \/ \E id \in WorkflowIds : \E p \in Prompts : generate_image(id, p)
    \/ BgProgress
    \/ \E id \in WorkflowIds : \E o \in WorkflowResults \cup {NoValue} : EngineClose(id, o)
    \/ \E id \in StarterIds : StarterStart(id)
    \/ \E id \in WorkflowIds : get_workflow_status(id)

\* the API server with the executions of its workflows; the workflow instance of
\* the other specifications stays as it was made
ApiSpec == T2IInit /\ [][ApiNext]_vars

\* the event loop keeps running the tasks it has: a step of a run_workflow task
\* that stays possible is taken
ApiLiveSpec == ApiSpec /\ \A id \in WorkflowIds : WF_vars(BgStep(id))

\* how many cancel_generation signals the model sends to one instance
MaxCancels == 1

\* a client sends cancel_generation to a Text2ImageWorkflow, at any time of its run
SendCancel ==
    /\ wtype = "text2image"
    /\ Len(signals) < MaxCancels
    /\ SendSignal(CancelGeneration)

\* a Text2ImageWorkflow instance with its run, its activity and the cancel signal
SignalNext ==
    \/ SendCancel
    \/ ApplySignal
    \/ T2IProgress
SignalSpec == T2IInit /\ [][SignalNext]_vars

\* the handlers of a Text2ImageWorkflow instance alone, called on an instance
\* whose run has not started, as the unit tests call them
HandlerNext ==
    \/ \E sig \in SignalsOf("text2image") : SendSignal(sig)
    \/ ApplySignal
    \/ Query
HandlerSpec == T2IInit /\ [][HandlerNext]_vars

----------------------------------------------------------------------------
(* The claims *)

IsHealth == wtype = "health_check"
IsHello == wtype = "hello"
IsT2I == wtype = "text2image"

\* the input list of the run, as the fan-out recorded it
InputOf(ts) == [i \in 1..Len(ts) |-> ts[i].container]
Distinct(list) == \A i, j \in 1..Len(list) : list[i] = list[j] => i = j
Range(list) == {list[i] : i \in 1..Len(list)}
FailedTasks(ts) == {i \in 1..Len(ts) : ts[i].outcome.kind = "exc"}
\* an entry run made from a raised error; a returned value names its container
CapturedFailure(e) == e.status = "error" /\ "container" \notin DOMAIN e
\* the entry the fan-out is to hold for an activity that ended with outcome o
ExpectedEntry(o) ==
    IF o.kind = "exc"
    THEN [status |-> "error", error |-> o.error]
    ELSE [status |-> o.status, container |-> o.container]

HCReturned == IsHealth /\ pc = "done"

\* C1 (as stated): for every input list of N containers of which K activities
\* fail, the mapping run returns has N entries, K of them captured failures and
\* the others the value of the container's own activity.
C1_FanOutEntriesAnyList ==
    HCReturned =>
        /\ Cardinality(DOMAIN ret.value) = Len(tasks)
        /\ \A i \in 1..Len(tasks) :
              ret.value[tasks[i].container] = ExpectedEntry(tasks[i].outcome)

\* C1 (amended): when the N containers of the input list are pairwise distinct
\* and K of the activities fail, the mapping run returns has N entries, the K of
\* the failed activities captured failures with the failure's message and the
\* other N-K the value the container's own activity returned.
C1_FanOutEntries ==
    (HCReturned /\ Distinct(InputOf(tasks))) =>
        /\ Cardinality(DOMAIN ret.value) = Len(tasks)
        /\ \A i \in 1..Len(tasks) :
              ret.value[tasks[i].container] = ExpectedEntry(tasks[i].outcome)
        /\ Cardinality({c \in DOMAIN ret.value : CapturedFailure(ret.value[c])})
              = Cardinality(FailedTasks(tasks))

C1_Witness ==
    /\ HCReturned
    /\ Len(tasks) = 2 /\ Distinct(InputOf(tasks))
    /\ tasks[1].outcome.kind = "exc" /\ tasks[2].outcome.kind = "value"
    /\ CapturedFailure(ret.value[tasks[1].container])

\* C2: an add_container signal delivered while run awaits its fan-out does not
\* disturb the run: run ends by returning a mapping with exactly one entry per
\* container of the initial input list.
C2_SignalDoesNotDisturbRun ==
    (IsHealth /\ pc \in {"done", "raised"}) =>
        /\ pc = "done"
        /\ DOMAIN ret.value = Range(InputOf(tasks))

\* C3: run starts every activity before it awaits, returns only after every one
\* of them has ended, and never ends with a propagated exception, whichever
\* activities fail.
C3_BulkheadNoException ==
    IsHealth =>
        /\ pc # "raised"
        /\ (pc = "awaiting" => actCalls = Len(tasks))
        /\ (pc = "done" => AllTerminal(tasks))

\* C4: the signals of an instance are applied one at a time in arrival order: the
\* suffix is the payload of the last set_suffix applied (the last one sent once
\* none is pending), and no signal invokes run or the activity again.
C4_SignalsInArrivalOrder ==
    IsHello =>
        /\ applied <= Len(signals)
        /\ hello.suffix = (IF applied = 0 THEN "!" ELSE signals[applied].arg)
        /\ runCalls <= 1 /\ actCalls <= 1
        /\ (pc = "init" => runCalls = 0 /\ actCalls = 0)

C4_Witness ==
    /\ IsHello /\ pc = "awaiting"
    /\ applied = 2 /\ signals[1].arg # signals[2].arg
    /\ hello.suffix = signals[2].arg

\* the answer a query issued in the current state returns
Snapshot == to_payload(lists, HandleQuery.ret)
\* the container list an answer shows
ShownContainers(ls, q) ==
    IF "ref" \in DOMAIN q.containers THEN ls[q.containers.ref] ELSE q.containers.val
\* whether the answer shows the effect of the signal
ShowsEffect(ls, q, sig) ==
    IF sig.name = "set_suffix" THEN q.suffix = sig.arg
    ELSE Contains(ShownContainers(ls, q), sig.arg)

StateValue ==
    CASE IsHello -> [name |-> hello.name, suffix |-> hello.suffix]
      [] IsHealth -> [containers |-> [val |-> lists[hc.containers]],
                      health_results |-> hc.health_results]
      [] OTHER -> [prompt |-> t2i.prompt, status |-> t2i.status,
                   progress |-> t2i.progress, image_url |-> t2i.image_url]
\* an answer as its reader sees it now, without the derived summary
Observed(ls, q) ==
    IF "containers" \in DOMAIN q
    THEN [containers |-> [val |-> ShownContainers(ls, q)],
          health_results |-> q.health_results]
    ELSE q

ClaimedWait(n) == Min(InitialInterval * Pow(2, n - 2), MaximumInterval)

\* C7: attempt n >= 2 starts no earlier than min(initialInterval * 2^(n-2),
\* maximumInterval) after the failure of attempt n-1; under the Text2Image policy
\* the waits before attempts 2 and 3 are at least 1 s and 2 s.
C7_BackoffBeforeRetry ==
    (IsT2I /\ inv.attempt >= 2 /\ inv.state \in {"running", "completed"}) =>
        /\ inv.waited >= ClaimedWait(inv.attempt)
        /\ (inv.attempt = 2 => inv.waited >= 1)
        /\ (inv.attempt = 3 => inv.waited >= 2)

C7_Witness ==
    /\ IsT2I /\ inv.attempt = 3 /\ inv.state = "running"
    /\ inv.waited = 2

\* C8: when an attempt fails with an error of a kind of the non-retryable set,
\* no further attempt is made whatever maximumAttempts is, and that error is the
\* terminal error of the workflow.
C8_NonRetryableNotRetried ==
    (IsT2I /\ poller.pc = "idle" /\ poller.exc \in NonRetryableErrorTypes) =>
        /\ inv.state = "failed"
        /\ inv.failure = poller.exc
        /\ (pc = "failed" => ret.type = poller.exc)

\* C9: the activity is attempted at most 3 times, and the workflow ends with an
\* error only after the third attempt failed or after a failure of a
\* non-retryable kind.
C9_AtMostThreeAttempts ==
    IsT2I =>
        /\ inv.attempt <= 3
        /\ ((pc = "failed" \/ inv.state = "failed") =>
               \/ inv.attempt = 3
               \/ inv.failure \in NonRetryableErrorTypes)
        /\ (pc = "failed" => inv.state = "failed" /\ ret.type = inv.failure)

C9_Witness ==
    /\ IsT2I /\ pc = "failed"
    /\ inv.attempt = 3 /\ inv.failure = "Exception"

\* the remote service accepts every submit and answers every poll with running
StuckRemote ==
    /\ IsT2I
    /\ poller.exc = "none"
    /\ poller.status \in {"none", "running"}

\* C10: when the remote service answers every status poll with running, the
\* activity times out at start-to-close and the workflow eventually ends as
\* failed with kind Timeout.
C10_StuckRemoteTimesOut ==
    ([]StuckRemote) => <>(pc = "failed" /\ ret.type = "Timeout")

C10_Witness ==
    /\ IsT2I /\ pc = "failed" /\ ret.type = "Timeout"
    /\ inv.attempt = 3
    /\ poller.exc = "none" /\ poller.status = "running"

\* the step by which the server fails the running attempt as timed out
TimesOut ==
    Running /\ inv'.state \in {"backoff", "failed"} /\ inv'.failure = "Timeout"
\* the time since the last heartbeat of the running attempt
SinceBeat == inv.elapsed - inv.lastBeat

LastError ==
    [type |-> SurfacedType(poller.exc),
     message |-> SurfacedMessage(poller.exc, poller.msg)]
\* the kind of an error: the type it surfaces with, which is what a retry policy
\* and a caller match on
ErrorKind(e) == e.type
\* the kind of the error the poller raises for a polled status
KindFor(status) ==
    ErrorKind([type |-> SurfacedType("Exception"),
               message |-> SurfacedMessage("Exception", StatusMessage(status))])
\* the statuses on which the poller of the claims ends the attempt
EndingStatuses == RemoteStatuses \ {"pending", "running", "processing"}
\* the attempt ended at the dispatch of the status it polled last
EndedAtDispatch ==
    /\ IsT2I /\ poller.pc = "idle"
    /\ poller.status \in EndingStatuses
    /\ inv.state \in {"completed", "backoff", "failed"}

\* C12: the poller ends the attempt by the polled status: completed -> fetch and
\* return the payload; failed -> an error of the failed kind with the task's
\* message; cancelled -> an error of a kind of its own; any other ending value
\* -> an unknown-status error with the value; the three failures differ in kind.
C12_StatusDispatch ==
    EndedAtDispatch =>
        CASE poller.status = "completed" ->
               \/ poller.exc # "none" /\ inv.state # "completed"
               \/ /\ poller.exc = "none" /\ inv.state = "completed"
                  /\ poller.result.kind = "value"
                  /\ poller.result.prompt = inv.input
          [] poller.status = "failed" ->
               /\ ErrorKind(LastError) = KindFor("failed")
               /\ LastError.message[3] = RemoteError
               /\ ErrorKind(LastError) # KindFor("bogus")
          [] poller.status = "cancelled" ->
               /\ ErrorKind(LastError) # KindFor("failed")
               /\ ErrorKind(LastError) # KindFor("bogus")
          [] OTHER ->
               /\ ErrorKind(LastError) = KindFor("bogus")
               /\ LastError.message[3] = poller.status

\* the statuses on which the poller of the claims keeps polling
ContinuingStatuses == {"pending", "running", "processing"}

\* C13: while the polls return pending, running or processing the poller neither
\* fails nor returns: an attempt whose last polled status is one of them has not
\* failed on that status and has returned nothing, and it has ended only by
\* another error or by the start-to-close timeout; in particular a poll that
\* finds the task still pending does not fail the attempt.
C13_ContinuingStatusKeepsPolling ==
    (IsT2I /\ poller.status \in ContinuingStatuses) =>
        /\ poller.msg # StatusMessage(poller.status)
        /\ poller.result = NoValue
        /\ (poller.pc = "idle" => poller.exc # "none" \/ inv.failure = "Timeout")

\* the statuses the service and the poller know
KnownStatuses == {"pending", "processing", "running", "completed", "failed", "cancelled"}
\* the attempt ended because its poll returned a value outside the known statuses
UnknownStatusEnded ==
    /\ IsT2I /\ poller.pc = "idle"
    /\ poller.status \in RemoteStatuses \ KnownStatuses
    /\ poller.msg = StatusMessage(poller.status)

\* C14 (as stated): the failure of an attempt on a status value outside the known
\* statuses is not retried: no further attempt is made, even though attempts
\* remain under the retry policy.
C14_UnknownStatusNotRetried ==
    UnknownStatusEnded => inv.state = "failed"

\* C14 (amended): the failure of an attempt on a status value outside the known
\* statuses is retried like any other error of the activity: a further attempt
\* is made while attempts remain, and the error, carrying the value, reaches the
\* workflow only after the third attempt failed.
C14_UnknownStatusRetried ==
    UnknownStatusEnded =>
        /\ inv.state = (IF inv.attempt < MaximumAttempts THEN "backoff" ELSE "failed")
        /\ LastError.type \notin NonRetryableErrorTypes
        /\ LastError.message[3] = poller.status
        /\ (pc = "failed" =>
               inv.attempt = MaximumAttempts /\ ret.type = LastError.type)

C14_Witness ==
    /\ UnknownStatusEnded
    /\ inv.attempt = 2 /\ inv.state = "backoff"
    /\ pc = "awaiting"

\* the attempt ended by a network failure of its submit or of one of its polls
NetworkFailureEnded == IsT2I /\ poller.pc = "idle" /\ poller.exc = "ClientError"

\* C15: a network failure while submitting or polling surfaces as a retryable
\* error whose kind differs from the kind of the error of a remote task that
\* reports failed, so that a caller can tell the two apart by kind.
C15_NetworkErrorOfOwnKind ==
    NetworkFailureEnded =>
        /\ inv.state = (IF inv.attempt < MaximumAttempts THEN "backoff" ELSE "failed")
        /\ ErrorKind(LastError) # KindFor("failed")

\* the container list of the live HealthCheckWorkflow instance
ContainerList == lists[hc.containers]

\* C16: add_container has set semantics: a container absent from the list is
\* appended at its end and a container already present leaves the list unchanged;
\* and, add_container signals interleaved in any way with the start of run, the
\* list of the instance never comes to hold a container twice (the input list
\* holding none twice) and holds every container a signal has added.
C16_AddContainerSetSemantics ==
    [][IsHealth =>
          /\ (applied' = applied + 1 =>
                 ContainerList' =
                    (IF Contains(ContainerList, signals[applied'].arg)
                     THEN ContainerList
                     ELSE Append(ContainerList, signals[applied'].arg)))
          /\ (Distinct(InputOf(tasks')) => Distinct(ContainerList'))
          /\ \A k \in 1..applied' : Contains(ContainerList', signals[k].arg)]_vars

\* how many of the entries of the keys have one of the wanted statuses, counted
\* entry by entry
RECURSIVE Tally(_, _, _)
Tally(results, keys, wanted) ==
    IF keys = {} THEN 0
    ELSE LET c == CHOOSE k \in keys : TRUE IN
         (IF results[c].status \in wanted THEN 1 ELSE 0)
            + Tally(results, keys \ {c}, wanted)
\* a get_health_status answer is there
HealthAnswered == IsHealth /\ query # NoValue

\* C17: for every results mapping the summary has total = number of entries and
\* healthy, unhealthy, errors = number of entries whose status is exactly
\* "healthy", "unhealthy", "error"; an entry of any other status counts in total
\* only, so the three sum to at most total; the empty mapping gives four zeros.
C17_SummaryCounts ==
    HealthAnswered =>
        LET r == query.health_results
            s == query.summary
            n == Cardinality(DOMAIN r)
            others == HealthStatuses \ {"healthy", "unhealthy", "error"}
        IN /\ DOMAIN s = {"total", "healthy", "unhealthy", "errors"}
           /\ s.total = n
           /\ s.healthy = Tally(r, DOMAIN r, {"healthy"})
           /\ s.unhealthy = Tally(r, DOMAIN r, {"unhealthy"})
           /\ s.errors = Tally(r, DOMAIN r, {"error"})
           /\ s.healthy + s.unhealthy + s.errors = n - Tally(r, DOMAIN r, others)
           /\ s.healthy + s.unhealthy + s.errors <= s.total
           /\ (n = 0 => s = [total |-> 0, healthy |-> 0, unhealthy |-> 0, errors |-> 0])

C17_Witness ==
    /\ HealthAnswered
    /\ DOMAIN query.health_results = {"a", "b"}
    /\ query.health_results["a"].status = "stopped"
    /\ query.health_results["b"].status = "error"
    /\ query.summary = [total |-> 2, healthy |-> 0, unhealthy |-> 0, errors |-> 1]

\* the worker applies the next signal of the history, and it is one of this name
Applies(name) == applied' = applied + 1 /\ signals[applied'].name = name
\* p brought into 0..100
Clamped(p) == IF p < 0 THEN 0 ELSE IF p > 100 THEN 100 ELSE p

StatusAnswered == IsT2I /\ query # NoValue /\ queryAt = applied

C21_SuffixOnly ==
    [][IsHello =>
          /\ (Applies("set_suffix") =>
                 /\ hello' = [hello EXCEPT !.suffix = signals[applied'].arg]
                 /\ UNCHANGED <<pc, ret, runCalls, actCalls>>)
          /\ (pc = "init" => hello.name = None /\ (applied = 0 => hello.suffix = "!"))
          /\ (pc # "init" => hello.name \in Names /\ hello'.name = hello.name)
          /\ (pc' = "done" =>
                 ret' = [kind |-> "value", value |-> <<"Hello, ", hello'.name, "!">>])
          /\ (query' # NoValue => DOMAIN query' = {"name", "suffix"})]_vars

C21_Witness ==
    /\ IsHello /\ pc = "done"
    /\ applied = 2 /\ hello.suffix # "!"
    /\ query = [name |-> hello.name, suffix |-> hello.suffix]
    /\ ret.value = <<"Hello, ", hello.name, "!">>

----------------------------------------------------------------------------
(* The image generation service (src/image_generation_service.py) *)

\* str(e) of what the pipeline can raise
PipelineError == "CUDA out of memory"
\* the result a completed task gets
TaskResult(t) == [kind |-> "value", image_url |-> <<"/images/", t, ".png">>]

\* lines 491-507: POST /generate makes a task and schedules its background work
service_generate(t) ==
    /\ t \in TaskIds \ DOMAIN gen.tasks
    /\ gen' = WithNewTask(gen, t)
    /\ reply' = [op |-> "generate_task", id |-> t, code |-> 200,
                 body |-> [task_id |-> t, status |-> "started"]]
    /\ UNCHANGED <<wfvars, store, bg, engine>>

\* mutant: a completed task keeps the progress it had
generate_image_task_noProgress(t, ok) ==
    /\ t \in gen.sched
    /\ gen' = [tasks |-> [gen.tasks EXCEPT ![t] =
                             IF ok
                             THEN [@ EXCEPT !.status = "completed",
                                            !.result = TaskResult(t)]
                             ELSE [@ EXCEPT !.status = "failed",
                                            !.error = PipelineError]],
               sched |-> gen.sched \ {t}]
    /\ UNCHANGED <<wfvars, store, bg, engine, reply>>

\* lines 319-391: the background work of a task; it awaits nothing, so it runs
\* from its first statement to its last without another handler in between:
\* status processing, then completed with progress 100 and the result, or failed
\* with the error
generate_image_task(t, ok) ==
    /\ t \in gen.sched
    /\ LET started == [gen.tasks[t] EXCEPT !.status = "processing"] IN
         gen' = [tasks |-> [gen.tasks EXCEPT ![t] =
                               IF ok
                               THEN [started EXCEPT !.status = "completed",
                                                    !.progress = 100,
                                                    !.result = TaskResult(t)]
                               ELSE [started EXCEPT !.status = "failed",
                                                    !.error = PipelineError]],
                 sched |-> gen.sched \ {t}]
    /\ UNCHANGED <<wfvars, store, bg, engine, reply>>

\* lines 548-559: DELETE /tasks/{task_id}
cancel_task(t) ==
    /\ t \in TaskIds
    /\ IF t \notin DOMAIN gen.tasks
       THEN /\ reply' = [op |-> "cancel", id |-> t, code |-> 404,
                         body |-> [detail |-> "Task not found"]]
            /\ gen' = gen
       ELSE IF gen.tasks[t].status \in {"pending", "processing"}
            THEN /\ gen' = [gen EXCEPT !.tasks[t].status = "cancelled"]
                 /\ reply' = [op |-> "cancel", id |-> t, code |-> 200,
                              body |-> [message |-> "Task cancelled"]]
            ELSE /\ reply' = [op |-> "cancel", id |-> t, code |-> 400,
                              body |-> [detail |-> "Cannot cancel completed or failed task"]]
                 /\ gen' = gen
    /\ UNCHANGED <<wfvars, store, bg, engine>>

\* lines 509-521: GET /status/{task_id} (get_status of the service)
service_get_status(t) ==
    /\ t \in TaskIds
    /\ reply' = IF t \in DOMAIN gen.tasks
                THEN [op |-> "task_status", id |-> t, code |-> 200,
                      body |-> [task_id |-> t, status |-> gen.tasks[t].status,
                                progress |-> gen.tasks[t].progress,
                                error |-> gen.tasks[t].error]]
                ELSE [op |-> "task_status", id |-> t, code |-> 404,
                      body |-> [detail |-> "Task not found"]]
    /\ UNCHANGED <<wfvars, store, bg, engine, gen>>

ServiceNext ==
    \/ \E t \in TaskIds : service_generate(t)
    \/ \E t \in TaskIds : \E ok \in BOOLEAN : generate_image_task(t, ok)
    \/ \E t \in TaskIds : cancel_task(t)
    \/ \E t \in TaskIds : service_get_status(t)

\* the image generation service alone
ServiceSpec == T2IInit /\ [][ServiceNext]_vars

\* the API server and the image generation service side by side
\* one workflow and one task are started; every id is asked for
QueryNext ==
    \/ \E p \in Prompts : generate_image("w1", p)
    \/ BgProgress
    \/ \E o \in WorkflowResults \cup {NoValue} : EngineClose("w1", o)
    \/ \E id \in WorkflowIds : get_workflow_status(id)
    \/ service_generate("t1")
    \/ \E ok \in BOOLEAN : generate_image_task("t1", ok)
    \/ cancel_task("t1")
    \/ \E t \in TaskIds : service_get_status(t)
QuerySpec == T2IInit /\ [][QueryNext]_vars

----------------------------------------------------------------------------
(* The records of the API server *)

IsTerminal(id) == id \in DOMAIN store /\ store[id].status \in TerminalStatuses

\* C22: a tracked workflow gets a terminal status (completed, failed) at most
\* once, and from then on its record (status, result, error) never changes
C22_TerminalOnceAndImmutable ==
    [][\A id \in WorkflowIds :
          /\ id \in DOMAIN store => id \in DOMAIN store'
          /\ IsTerminal(id) => store'[id] = store[id]]_vars

\* a record that is completed while a later execution of its id is open
C22_Witness ==
    \E id \in DOMAIN store :
       /\ store[id].status = "completed"
       /\ IsOpen(id)
       /\ reply.op = "start" /\ reply.code = 200

\* the record has a result, an error
HasResult(r) == r.result # NoValue
HasError(r) == r.error # None

\* C23: a record never has both a result and an error; it has a result only when
\* completed and an error only when failed, and each is written once, by the step
\* that takes the record into that terminal status
C23_ResultXorError ==
    /\ [](\A id \in DOMAIN store :
             /\ ~(HasResult(store[id]) /\ HasError(store[id]))
             /\ HasResult(store[id]) <=> store[id].status = "completed"
             /\ HasError(store[id]) <=> store[id].status = "failed")
    /\ [][\A id \in DOMAIN store :
             /\ store'[id].result # store[id].result =>
                   /\ store[id].status # "completed" /\ store'[id].status = "completed"
                   /\ ~HasResult(store[id])
             /\ store'[id].error # store[id].error =>
                   /\ store[id].status # "failed" /\ store'[id].status = "failed"
                   /\ ~HasError(store[id])]_vars

\* one record completed with its result, another failed with its error
C23_Witness ==
    \E a, b \in DOMAIN store :
       /\ store[a].status = "completed" /\ store[a].result \in WorkflowResults
       /\ store[b].status = "failed" /\ store[b].error = WorkflowFailed

\* no execution under the id has returned a result: no activity of it is done
NoActivityDone(id) == \A i \in DOMAIN engine[id] : engine[id][i].state # "completed"

\* the last answer is the record of a workflow none of whose activities is done
EarlyStatus == reply.op = "status" /\ reply.code = 200 /\ NoActivityDone(reply.id)

InFlight(id) == id \in DOMAIN bg /\ bg[id].pc # "ended"
TaskInFlight(t) == t \in gen.sched

\* C26: a status query for an unknown id is answered Not Found; for a known id it
\* is answered with the record as it stands, in every state of the instance, in
\* flight or not (GET /status of the API server and of the generation service)
C26_StatusQueryTotal ==
    /\ [](/\ \A id \in WorkflowIds : ENABLED get_workflow_status(id)
          /\ \A t \in TaskIds : ENABLED service_get_status(t))
    /\ [][/\ \A id \in WorkflowIds :
                get_workflow_status(id) =>
                   /\ reply'.op = "status" /\ reply'.id = id
                   /\ IF id \in DOMAIN store
                      THEN reply'.code = 200 /\ reply'.body = store[id]
                      ELSE reply'.code = 404
          /\ \A t \in TaskIds :
                service_get_status(t) =>
                   /\ reply'.op = "task_status" /\ reply'.id = t
                   /\ IF t \in DOMAIN gen.tasks
                      THEN /\ reply'.code = 200
                           /\ reply'.body.status = gen.tasks[t].status
                           /\ reply'.body.progress = gen.tasks[t].progress
                      ELSE reply'.code = 404]_vars

\* a workflow asked for while its execution is open, with a task of the service
\* waiting for its background work
C26_Witness ==
    /\ reply.op = "status" /\ reply.code = 200
    /\ InFlight(reply.id) /\ IsOpen(reply.id)
    /\ reply.body.status = "running"
    /\ TaskInFlight("t1")

\* the execution the run_workflow task of the id started has ended
ExecutionEnded(id) ==
    /\ id \in DOMAIN bg /\ bg[id].run # 0
    /\ engine[id][bg[id].run].state # "open"

\* the record shows how the work of the id ended
ShowsOutcome(id) ==
    \/ /\ store[id].status = "completed"
       /\ ExecutionEnded(id)
       /\ engine[id][bg[id].run].state = "completed"
       /\ store[id].result = engine[id][bg[id].run].result
    \/ /\ store[id].status = "failed"
       /\ IF bg[id].run = 0
          THEN store[id].error \in {ConnectError, AlreadyStarted}
          ELSE /\ store[id].error = WorkflowFailed
               /\ engine[id][bg[id].run].state = "failed"

\* C27: the end of a started workflow is never dropped: once its execution has
\* ended, with a result or with an error, the record comes to show completed with
\* that result or failed with the error's message; a task that has ended, whether
\* at the connect, at the start or after the result, has left such a record
C27_OutcomeRecorded ==
    /\ [](\A id \in DOMAIN bg : bg[id].pc = "ended" => ShowsOutcome(id))
    /\ \A id \in WorkflowIds :
          ExecutionEnded(id) ~> (id \in DOMAIN bg /\ bg[id].pc = "ended" /\ ShowsOutcome(id))

\* a record that shows the failure of its execution
C27_Witness ==
    \E id \in DOMAIN bg :
       /\ ExecutionEnded(id) /\ bg[id].pc = "ended"
       /\ engine[id][bg[id].run].state = "failed"
       /\ store[id].status = "failed" /\ store[id].error = WorkflowFailed

----------------------------------------------------------------------------
(* The tasks of the image generation service *)

TaskTerminal == {"completed", "failed", "cancelled"}

\* C28: a task of the generation service that is completed, failed or cancelled
\* never changes status again, however its background work and the cancel
\* requests interleave
C28_TaskTerminalIsFinal ==
    [][\A t \in DOMAIN gen.tasks :
          gen.tasks[t].status \in TaskTerminal =>
             gen'.tasks[t].status = gen.tasks[t].status]_vars

\* the progress of a task stays within bounds
ProgressInRange(task) == task.progress \in 0..100

\* C29: the progress of a task is always within 0..100, never decreases, and is
\* 100 whenever the task is completed
C29_ProgressMonotone ==
    /\ [](\A t \in DOMAIN gen.tasks :
             /\ ProgressInRange(gen.tasks[t])
             /\ gen.tasks[t].status = "completed" => gen.tasks[t].progress = 100)
    /\ [][\A t \in DOMAIN gen.tasks :
             gen'.tasks[t].progress >= gen.tasks[t].progress]_vars

\* one task completed at 100, another failed at the progress it was made with
C29_Witness ==
    \E a, b \in DOMAIN gen.tasks :
       /\ gen.tasks[a].status = "completed" /\ gen.tasks[a].progress = 100
       /\ gen.tasks[b].status = "failed" /\ gen.tasks[b].progress = 0
       /\ reply.op = "task_status" /\ reply.id = a /\ reply.body.progress = 100

----------------------------------------------------------------------------
(* Retried activities of the fan-out *)

\* containers [a, b]: a's activity returned healthy at its first attempt, b's
\* failed once and returned unhealthy at the retry; run has returned
RetryScenario ==
    /\ HCReturned
    /\ InputOf(tasks) = <<"a", "b">>
    /\ tasks[1].outcome = Returned("a", "healthy") /\ tasks[1].failed = 0
    /\ tasks[2].outcome = Returned("b", "unhealthy") /\ tasks[2].failed = 1

\* C30: an activity of the fan-out whose first attempt fails and whose retry
\* returns a value contributes that value, not an error entry: the failed attempt
\* ends nothing, and with [a, b], a healthy and b unhealthy at the retry, the
\* query after the run shows a healthy, b unhealthy and the summary total 2,
\* healthy 1, unhealthy 1, errors 0
C30_RetryValueContributes ==
    /\ [][\A i \in DOMAIN tasks :
             (i \in DOMAIN tasks' /\ tasks'[i].failed > tasks[i].failed) =>
                /\ tasks'[i].outcome = Pending
                /\ UNCHANGED <<pc, ret, hc>>]_vars
    /\ [](HCReturned /\ Distinct(InputOf(tasks)) =>
             \A i \in DOMAIN tasks :
                tasks[i].outcome.kind = "value" =>
                   ret.value[tasks[i].container].status = tasks[i].outcome.status)
    /\ [][Query /\ RetryScenario =>
             /\ DOMAIN query'.health_results = {"a", "b"}
             /\ query'.health_results["a"].status = "healthy"
             /\ query'.health_results["b"].status = "unhealthy"
             /\ query'.summary =
                   [total |-> 2, healthy |-> 1, unhealthy |-> 1, errors |-> 0]]_vars

\* the query answered after the run of the scenario
C30_Witness ==
    /\ RetryScenario
    /\ query # NoValue
    /\ DOMAIN query.health_results = {"a", "b"}
    /\ query.health_results["b"].status = "unhealthy"
    /\ query.summary = [total |-> 2, healthy |-> 1, unhealthy |-> 1, errors |-> 0]

----------------------------------------------------------------------------
(* The writes of the fan-in *)

\* the activities whose outcome the loop of lines 64-71 writes under the key
WritersOf(key) == {i \in 1..Len(tasks) : tasks[i].container = key}

\* each key of the returned map has one writer and holds that writer's outcome
WrittenOnce ==
    \A key \in DOMAIN ret.value :
       /\ Cardinality(WritersOf(key)) = 1
       /\ \A i \in WritersOf(key) : ret.value[key] = ExpectedEntry(tasks[i].outcome)

\* C32 as stated: for every input list, each key of the result map of a run is
\* written once, with the outcome of the one activity that handled that key
C32_WriteOncePerKeyAnyList == HCReturned => WrittenOnce

\* C32 for input lists without a repeated container: each key of the result map
\* is written once, with the outcome of the one activity that handled that key,
\* and the instance's map is assigned once, when the run returns
C32_WriteOncePerKey ==
    /\ []((HCReturned /\ Distinct(InputOf(tasks))) =>
             /\ WrittenOnce
             /\ DOMAIN ret.value = Range(InputOf(tasks)))
    /\ [][hc'.health_results # hc.health_results =>
             /\ pc = "awaiting" /\ pc' = "done"
             /\ hc.health_results = EmptyMap
             /\ hc'.health_results = ret'.value]_vars

\* two containers whose activities ended differently, each under its own key
C32_Witness ==
    /\ HCReturned
    /\ InputOf(tasks) = <<"b", "a">>
    /\ tasks[1].outcome = Returned("b", "stopped")
    /\ tasks[2].outcome = Returned("a", "healthy")
    /\ ret.value["b"].status = "stopped" /\ ret.value["a"].status = "healthy"
    /\ hc.health_results = ret.value

----------------------------------------------------------------------------
(* The remote calls of one attempt of generate_image_from_text *)

\* C33: within one attempt the remote calls follow the protocol: one submit
\* comes before any poll; every poll asks for the task id that submit returned;
\* the result is fetched at most once and only after a poll answered completed;
\* no remote call follows the fetch; an attempt whose submit gave no task id
\* fails without polling
C33_ProtocolOrder ==
    /\ [](IsT2I =>
             /\ poller.submits <= 1 /\ poller.fetches <= 1
             /\ poller.pc \in {"sleep", "get"} => poller.submits = 1 /\ poller.task # None
             /\ poller.polled # None => poller.submits = 1 /\ poller.polled = poller.task
             /\ poller.fetches = 1 =>
                   /\ poller.status = "completed" /\ poller.polled = poller.task
                   /\ poller.pc = "idle"
             /\ (poller.submits = 1 /\ poller.task = None) =>
                   /\ poller.pc = "idle" /\ poller.exc # "none"
                   /\ poller.polled = None /\ poller.fetches = 0)
    /\ [][IsT2I =>
             /\ (poller.fetches = 1 /\ inv'.attempt = inv.attempt) => poller' = poller
             /\ poller'.polled \notin {None, poller.polled} =>
                   /\ poller.pc = "get" /\ poller'.polled = poller.task
             /\ poller'.fetches > poller.fetches =>
                   /\ poller.pc = "get" /\ poller'.status = "completed"
                   /\ poller'.polled = poller.task]_vars

\* a retry that submitted, polled its own task and fetched the result
C33_Witness ==
    /\ IsT2I /\ inv.attempt = 2 /\ inv.state = "completed"
    /\ poller.submits = 1 /\ poller.fetches = 1
    /\ poller.task = "t2" /\ poller.polled = "t2"
    /\ DOMAIN gen.tasks = {"t1", "t2"}

\* the attempt is about to send a status request
AtPoll == IsT2I /\ poller.pc = "get"

\* C34: every iteration of the polling loop sends a heartbeat and then waits the
\* poll interval of 1 second before it polls: no status request is sent that was
\* not preceded, in its iteration, by a heartbeat
C34_HeartbeatBeforePoll ==
    /\ [](AtPoll => SinceBeat = PollInterval /\ PollInterval = 1)
    /\ [][IsT2I =>
             /\ (poller'.pc = "get" /\ poller.pc # "get") =>
                   /\ poller.pc = "sleep"
                   /\ inv'.lastBeat = inv.elapsed
                   /\ inv'.elapsed = inv.elapsed + PollInterval
             /\ (poller.pc = "get" /\ poller'.pc = "get") => poller' = poller]_vars

\* the third status request of an attempt, its heartbeat one second before
C34_Witness ==
    /\ AtPoll
    /\ inv.elapsed = 3 /\ inv.lastBeat = 2
    /\ poller.polled = poller.task /\ poller.status = "processing"

----------------------------------------------------------------------------
(* What the queries show of a run *)

\* C35: the health results get_health_status shows are all or nothing: in every
\* state the instance's map, and the map of every answer, is empty or is the
\* complete mapping run returned; once it is not empty it is the result of the run
C35_ResultsAllOrNothing ==
    /\ [](IsHealth =>
             /\ \/ hc.health_results = EmptyMap
                \/ pc = "done" /\ hc.health_results = ret.value
             /\ pc = "done" => hc.health_results = ret.value
             /\ query # NoValue =>
                   \/ query.health_results = EmptyMap
                   \/ /\ pc = "done" /\ query.health_results = ret.value
                      /\ DOMAIN query.health_results = Range(InputOf(tasks)))
    /\ [][IsHealth /\ hc.health_results # EmptyMap =>
             hc'.health_results = hc.health_results]_vars

\* an answer given while one of two activities had ended shows nothing, and the
\* activities have both ended by now
C35_Witness ==
    /\ IsHealth /\ pc = "awaiting"
    /\ Len(tasks) = 2 /\ AllTerminal(tasks)
    /\ query # NoValue /\ query.health_results = EmptyMap
    /\ hc.health_results = EmptyMap

\* C36: the status query of a Text2ImageWorkflow shows the latest state of the
\* run: answered after run began with prompt P it shows prompt P, and answered
\* after run returned a result with image URL U it shows image_url U and a
\* status other than pending
C36_StatusReflectsRun ==
    [][(IsT2I /\ Query /\ pc # "init") =>
          /\ query'.prompt = inv.input
          /\ pc = "done" =>
                /\ query'.image_url = ret.image_url
                /\ query'.status # "pending"]_vars

----------------------------------------------------------------------------
(* The check_container_health activity (src/app/activities.py) *)

\* a key the inspected State can lack
Absent == "absent"
\* what docker inspect can end with: a non-zero exit code, the timeout of
\* subprocess.run, another error of the call, output that is not JSON, an empty
\* JSON list, or the State of the container
ExitCodes == {NoValue} \cup {[kind |-> "int", v |-> n] : n \in {0, 1, 137}}
HealthValues == {Absent, "healthy", "unhealthy", "starting", "none"}
Inspections ==
    {[kind |-> k] : k \in {"nonzero", "timeout", "oserror", "badjson", "empty"}}
    \cup {[kind |-> "ok", Running |-> r, ExitCode |-> e, Health |-> h] :
             r \in {Absent, "true", "false"}, e \in ExitCodes, h \in HealthValues}

\* lines 77-87 and 37-41: the record returned for a failure
ErrorRecord(container, msg) ==
    [status |-> "error", error |-> msg, container |-> container]

\* mutant: a running container is given the status of its health check
DetermineStatus_passthrough(is_running, exit_code, health_status) ==
    IF is_running THEN (IF health_status = "unknown" THEN "healthy" ELSE health_status)
    ELSE IF exit_code = 0 THEN "stopped"
    ELSE "unhealthy"

\* lines 57-64
DetermineStatus(is_running, exit_code, health_status) ==
    IF is_running /\ health_status \in {"healthy", "unknown"} THEN "healthy"
    ELSE IF is_running /\ health_status = "unhealthy" THEN "unhealthy"
    ELSE IF ~is_running /\ exit_code = 0 THEN "stopped"
    ELSE "unhealthy"

\* lines 22-87: the record the activity returns for what docker inspect ended with
check_container_health(container_name, insp) ==
    CASE insp.kind = "nonzero" ->
           ErrorRecord(container_name, <<"Container ", container_name, " not found">>)
      [] insp.kind = "timeout" ->
           ErrorRecord(container_name, <<"Timeout checking container ", container_name>>)
      [] insp.kind = "oserror" ->
           ErrorRecord(container_name, <<"[Errno 2] No such file or directory: 'docker'">>)
      [] insp.kind = "badjson" ->
           ErrorRecord(container_name, <<"Expecting value: line 1 column 1 (char 0)">>)
      [] insp.kind = "empty" ->
           ErrorRecord(container_name, <<"list index out of range">>)
      [] OTHER ->
           LET is_running == insp.Running = "true"
               exit_code == IF insp.ExitCode = NoValue THEN 0 ELSE insp.ExitCode.v
               health_status == IF insp.Health = Absent THEN "unknown" ELSE insp.Health
           IN [status |-> DetermineStatus(is_running, exit_code, health_status),
               container |-> container_name,
               running |-> is_running,
               exit_code |-> exit_code,
               health_status |-> health_status]

\* a worker runs the activity for a container and returns its record
CheckContainer(c, insp) ==
    /\ c \in Containers /\ insp \in Inspections
    /\ reply' = [op |-> "check", id |-> c, code |-> 0,
                 body |-> [inspected |-> insp, returned |-> check_container_health(c, insp)]]
    /\ UNCHANGED <<wfvars, store, bg, engine, gen>>

InspectNext == \E c \in Containers : \E insp \in Inspections : CheckContainer(c, insp)
InspectSpec == HCInit /\ [][InspectNext]_vars

\* C37: check_container_health turns every failure of the inspection into a
\* value: for a non-zero exit code, a timeout or any exception while the output
\* is parsed it returns a record with status error, an error message and the
\* container's name; every record it returns has one of the four statuses
C37_InspectionFailureIsValue ==
    reply.op = "check" =>
       LET r == reply.body.returned
           insp == reply.body.inspected
       IN /\ r.status \in {"healthy", "unhealthy", "stopped", "error"}
          /\ r.container = reply.id
          /\ insp.kind # "ok" =>
                /\ r.status = "error"
                /\ "error" \in DOMAIN r /\ r.error # <<>>
          /\ insp.kind = "ok" => r.status # "error" /\ "error" \notin DOMAIN r

\* a running container whose health check is still starting is reported unhealthy
C37_Witness ==
    /\ reply.op = "check"
    /\ reply.body.inspected.kind = "ok"
    /\ reply.body.inspected.Running = "true"
    /\ reply.body.inspected.Health = "starting"
    /\ reply.body.returned.status = "unhealthy"

\* ---------------------------------------------------------------------
\* The image-generation activity and its retries against the service whose
\* background tasks run beside it.

\* the service runs a submitted task in the background
RemoteWork ==
    \E t \in TaskIds, ok \in BOOLEAN : generate_image_task(t, ok)

\* the attempts of the activity as in T2IProgress, a call of theirs ending
\* with an answer or with an HTTP error
AtLeastOnceNext ==
    \/ \E prompt \in Prompts : T2IRunStart(prompt)
    \/ \E o \in {"ok", "http_error"} : PollerSubmit(o)
    \/ PollerSleep
    \/ \E r \in {"processing", "completed", "failed", "http_error"} :
          \E u \in (IF r = "completed" THEN ImageUrls ELSE {None}) :
             PollerGet(r, "ok", u)
    \/ ActivityTimeout
    \/ BackoffTick
    \/ StartRetry
    \/ T2IRunFinish
    \/ RemoteWork

AtLeastOnceSpec == T2IInit /\ [][AtLeastOnceNext]_vars

\* a step of the activity in which the submit succeeded
SubmitSucceeds ==
    /\ poller.pc = "submit"
    /\ inv'.submitted = inv.submitted + 1

\* the tasks of the service other than t are as they were
OthersKept(t) ==
    \A x \in DOMAIN gen.tasks \ {t} :
        /\ x \in DOMAIN gen'.tasks
        /\ gen'.tasks[x] = gen.tasks[x]
        /\ (x \in gen.sched) = (x \in gen'.sched)

\* C38: retrying the activity is at-least-once toward the service: the
\* tasks of the service are as many as the submits that succeeded, every
\* successful submit makes one new task under an id no task had and the
\* attempt polls that task, no step of the activity removes, cancels or
\* otherwise changes a task, and a task changes only by its own
\* background work, which stays scheduled until it has run.
C38_AtLeastOnce ==
    /\ [](/\ Cardinality(DOMAIN gen.tasks) = inv.submitted
          /\ inv.submitted <= inv.attempt
          /\ \A t \in DOMAIN gen.tasks :
                /\ gen.tasks[t].status # "cancelled"
                /\ gen.tasks[t].status = "pending" => t \in gen.sched)
    /\ [][/\ SubmitSucceeds =>
               /\ poller'.task \notin DOMAIN gen.tasks
               /\ DOMAIN gen'.tasks = DOMAIN gen.tasks \cup {poller'.task}
               /\ gen'.tasks[poller'.task].status = "pending"
               /\ OthersKept(poller'.task)
          /\ ~SubmitSucceeds =>
               /\ DOMAIN gen'.tasks = DOMAIN gen.tasks
               /\ \A t \in DOMAIN gen.tasks :
                     gen'.tasks[t] # gen.tasks[t] =>
                         /\ t \in gen.sched /\ t \notin gen'.sched
                         /\ poller' = poller /\ inv' = inv
                         /\ OthersKept(t)]_vars

\* the second attempt polls its own task while the task of the first
\* attempt, which failed, has run to completion on its own
C38_Witness ==
    /\ inv.attempt = 2 /\ inv.submitted = 2
    /\ poller.task \in DOMAIN gen.tasks
    /\ \E t \in DOMAIN gen.tasks \ {poller.task} :
          gen.tasks[t].status = "completed"
    /\ gen.tasks[poller.task].status = "pending"
    /\ poller.polled = poller.task

\* ---------------------------------------------------------------------
\* Replay: the workflow code run again over a recorded history.

Request(activity, input) == [activity |-> activity, input |-> input]

\* a workflow instance of class t before its history's first event
Replayed0(t) ==
    [pc |-> "init", ret |-> NoValue,
     hello |-> HelloWorkflow_init, hc |-> HealthCheckWorkflow_init,
     lists |-> [own |-> <<>>, arg |-> <<>>], t2i |-> Text2ImageWorkflow_init,
     requested |-> <<>>, results |-> <<>>]

\* run is entered with the input of the start event
ReplayStart(t, m, input) ==
    CASE t = "hello" ->
           [m EXCEPT !.hello.name = input, !.pc = "awaiting",
                     !.requested = <<Request("say_hello", input)>>]
      [] t = "health_check" ->
           LET begun == [m EXCEPT !.lists.arg = input, !.hc.containers = "arg",
                                  !.pc = "awaiting",
                                  !.requested = [i \in 1..Len(input) |->
                                      Request("check_container_health", input[i])],
                                  !.results = [i \in 1..Len(input) |-> Pending]]
               f == FanIn(input, <<>>, m.hc.health_results)
           IN IF input = <<>>
              THEN [begun EXCEPT !.pc = f.pc, !.ret = f.ret,
                                 !.hc.health_results = f.health_results]
              ELSE begun
      [] OTHER ->
           [m EXCEPT !.pc = "awaiting",
                     !.requested = <<Request("generate_image_from_text", input)>>]

\* the handler of the signal runs
ReplaySignal(t, m, sig) ==
    CASE sig.name = "set_suffix" -> [m EXCEPT !.hello = set_suffix(@, sig.arg)]
      [] sig.name = "add_container" ->
           [m EXCEPT !.lists = add_container(@, m.hc, sig.arg)]
      [] OTHER -> m

\* the awaited activity has ended with the recorded outcome
ReplayCompleted(t, m, c) ==
    CASE t = "hello" -> [m EXCEPT !.pc = "done", !.ret = c.outcome]
      [] t = "health_check" -> [m EXCEPT !.results[c.index] = c.outcome]
      [] OTHER -> [m EXCEPT !.pc = IF c.outcome.kind = "error" THEN "failed" ELSE "done",
                            !.ret = c.outcome]

ReplayEvent(t, m, e) ==
    CASE e.ev = "started" -> ReplayStart(t, m, e.arg)
      [] e.ev = "signalled" -> ReplaySignal(t, m, e.arg)
      [] OTHER -> ReplayCompleted(t, m, e.arg)

\* the instance after the first k events of the history
RECURSIVE Replay(_, _, _)
Replay(t, events, k) ==
    IF k = 0 THEN Replayed0(t)
    ELSE ReplayEvent(t, Replay(t, events, k - 1), events[k])

\* the gather of the fan-out returns once every result is in the history, and
\* run goes on to its end
ReplayToEnd(t, m) ==
    IF t = "health_check" /\ m.pc = "awaiting"
       /\ \A i \in 1..Len(m.results) : m.results[i].kind # "pending"
    THEN LET f == FanIn(m.lists.arg, m.results, m.hc.health_results) IN
         [m EXCEPT !.pc = f.pc, !.ret = f.ret, !.hc.health_results = f.health_results]
    ELSE m

\* the activities the live instance has asked for, in order, with their inputs
Requested ==
    CASE wtype = "hello" ->
           IF pc = "init" THEN <<>> ELSE <<Request("say_hello", hello.name)>>
      [] wtype = "health_check" ->
           [i \in 1..Len(tasks) |-> Request("check_container_health", tasks[i].container)]
      [] OTHER ->
           IF pc = "init" THEN <<>>
           ELSE <<Request("generate_image_from_text", inv.input)>>

\* the live instance: where run stands, what it returned, its fields, its decisions
Live ==
    [pc |-> pc, ret |-> ret, hello |-> hello, hc |-> hc, lists |-> lists, t2i |-> t2i,
     requested |-> Requested, results |-> Outcomes(tasks)]

Ended == pc \in {"done", "raised", "failed"}

\* every workflow class with its signals, its queries and its run as in Next,
\* the history being recorded
ReplayInit == Start /\ hist = EmptyHistory

\* an attempt of the image activity ends at its first poll here, since run sees
\* only what the activity ends with after the retries; a health check ends
\* with a value or with an error
ReplayNext ==
    \/ \E t \in WorkflowType \ {"text2image"} : \E sig \in SignalsOf(t) : SendSignal(sig)
    \/ ApplySignal
    \/ Query
    \/ \E name \in Names : HelloRunStart(name)
    \/ HelloRunFinish
    \/ \E containers \in InputLists : HCRunStart(containers)
    \/ \E i \in 1..MaxContainers : \E c \in Containers :
          \E o \in {Returned(c, "healthy"), Raised(ErrMsg(c))} : HCActivityDone(i, o)
    \/ HCRunFinish
    \/ \E prompt \in Prompts : T2IRunStart(prompt)
    \/ \E o \in {"ok", "http_error"} : PollerSubmit(o)
    \/ PollerSleep
    \/ \E r \in {"completed", "failed"} : \E u \in ImageUrls : PollerGet(r, "ok", u)
    \/ BackoffTick
    \/ StartRetry
    \/ T2IRunFinish

ReplaySpec == ReplayInit /\ [][ReplayNext]_vars

====
